---- MODULE Spec2Model ----
(***************************************************************************)
(* A model of face_recognition_sys.py: the FaceRecognitionSystem object    *)
(* (known_faces directory, known_face_names), recognize_faces_in_frame,    *)
(* start_realtime_recognition and main.                                    *)
(*                                                                         *)
(* Strings are sequences of one-character strings, so that splitext,       *)
(* basename, lower and endswith are computed as Python computes them.      *)
(* Distances and confidences are integers in thousandths; a value          *)
(* formatted with :.2f is an integer in hundredths.                        *)
(***************************************************************************)
EXTENDS Integers, Sequences, FiniteSets, TLC

VARIABLES
    pc,                \* position of the program
    dirExists,         \* os.path.exists(known_faces_dir)
    dir,               \* file names in known_faces_dir
    known_face_names,  \* self.known_face_names
    call,              \* the last method of the object that returned or raised
    now,               \* the wall clock, time.time(), in seconds
    start_time,        \* local start_time of start_realtime_recognition
    isOpened,          \* what video_capture.isOpened() returned
    cameraHeld,        \* the VideoCapture holds the device
    windowOpen,        \* a HighGUI window exists
    shown,             \* the frame the window shows
    ret,               \* local ret of the loop
    frame,             \* local frame of the loop / of recognize_faces_in_frame
    frameNo,           \* serial number of the last camera frame, 1..NumFrames
    tempFile,          \* the frame stored in temp_frame.jpg, or NoFile
    result,            \* what DeepFace.find did in the current call
    name,              \* local name of recognize_faces_in_frame
    confidence,        \* local confidence of recognize_faces_in_frame
    printed,           \* the last line printed
    last_result,       \* local last_result of start_realtime_recognition
    key,               \* local key of the loop
    saved,             \* the frame written to capture_<timestamp>.jpg in this iteration
    steps,             \* the steps of the current loop iteration, in order
    retval,            \* what start_realtime_recognition returned
    used               \* which external facilities were ever used

vars == <<pc, dirExists, dir, known_face_names, call, now, start_time, isOpened,
          cameraHeld, windowOpen, shown, ret, frame, frameNo, tempFile, result, name,
          confidence, printed, last_result, key, saved, steps, retval, used>>

faceVars == <<dirExists, dir, known_face_names, call>>
loopVars == <<start_time, isOpened, cameraHeld, windowOpen, shown, ret, frame, frameNo,
              tempFile, result, name, confidence, last_result, key, saved, steps,
              retval, used>>

----------------------------------------------------------------------------
(* Bounds of the model *)

MaxFiles == 2      \* files in known_faces_dir after a file is added
NumFrames == 2     \* frame serial numbers wrap at NumFrames
MaxStart == 1      \* the clock reading when the program starts is 0..MaxStart

(* Program constants *)

TimeLimit == 10    \* line 95: time.time() - start_time > 10
ByteMask == 256    \* line 85: & 0xFF
OrdQ == 113        \* line 86: ord('q')
OrdS == 115        \* line 88: ord('s')

----------------------------------------------------------------------------
(* Absent values *)

NoFile == 0                    \* temp_frame.jpg does not exist
NoName == <<>>                 \* a string variable that is not set
NoLabel == [text |-> NoName, hasConf |-> FALSE, conf |-> 0, color |-> "none"]
NoFrame == [id |-> 0, label |-> NoLabel]       \* None, where a frame is expected
NoResult == [kind |-> "none", identity |-> NoName, distance |-> 0, img |-> NoFile]

----------------------------------------------------------------------------
(* Strings *)

Unknown == <<"U", "n", "k", "n", "o", "w", "n">>
KnownFacesDir == <<"k", "n", "o", "w", "n", "_", "f", "a", "c", "e", "s">>
Sep == "/"
ExtSep == "."

Uppers == <<"A", "B", "C", "D", "E", "F", "G", "H", "I", "J", "K", "L", "M",
            "N", "O", "P", "Q", "R", "S", "T", "U", "V", "W", "X", "Y", "Z">>
Lowers == <<"a", "b", "c", "d", "e", "f", "g", "h", "i", "j", "k", "l", "m",
            "n", "o", "p", "q", "r", "s", "t", "u", "v", "w", "x", "y", "z">>

\* str.lower(), one character
LowerChar(c) ==
    IF \E i \in 1..Len(Uppers) : Uppers[i] = c
    THEN Lowers[CHOOSE i \in 1..Len(Uppers) : Uppers[i] = c]
    ELSE c

\* str.lower()
Lower(s) == [i \in 1..Len(s) |-> LowerChar(s[i])]

\* str.endswith(suffix)
EndsWith(s, suf) ==
    /\ Len(suf) <= Len(s)
    /\ SubSeq(s, Len(s) - Len(suf) + 1, Len(s)) = suf

\* str.rfind(c), 1-based; 0 when c does not occur
RFind(s, c) ==
    IF \E i \in 1..Len(s) : s[i] = c
    THEN CHOOSE i \in 1..Len(s) : s[i] = c /\ \A j \in (i+1)..Len(s) : s[j] # c
    ELSE 0

\* where os.path.splitext cuts p: the last dot, when it comes after the last
\* separator and some character between the two is not a dot; else Len(p) + 1
SplitPoint(p) ==
    LET sepIndex == RFind(p, Sep)
        dotIndex == RFind(p, ExtSep)
    IN IF /\ dotIndex > sepIndex
          /\ \E k \in (sepIndex + 1)..(dotIndex - 1) : p[k] # ExtSep
       THEN dotIndex
       ELSE Len(p) + 1

\* os.path.splitext(p)[0]
SplitextRoot(p) == SubSeq(p, 1, SplitPoint(p) - 1)

\* os.path.splitext(p)[1]
SplitextExt(p) == SubSeq(p, SplitPoint(p), Len(p))

\* os.path.basename(p)
Basename(p) == SubSeq(p, RFind(p, Sep) + 1, Len(p))

\* os.path.join(a, b)
Join(a, b) ==
    IF Len(b) > 0 /\ b[1] = Sep THEN b
    ELSE IF Len(a) = 0 \/ a[Len(a)] = Sep THEN a \o b
    ELSE a \o <<Sep>> \o b

ImageExts == { <<".", "p", "n", "g">>, <<".", "j", "p", "g">>,
               <<".", "j", "p", "e", "g">> }

\* f.lower().endswith(('.png', '.jpg', '.jpeg'))
IsImageName(f) == \E e \in ImageExts : EndsWith(Lower(f), e)

----------------------------------------------------------------------------
(* The inputs the model draws from *)

FileA == <<"a", ".", "j", "p", "g">>
FileUnknown == Unknown \o <<".", "P", "N", "G">>
FileNotes == <<"n", ".", "t", "x", "t">>
FileDotted == <<"b", ".", "c", ".", "j", "p", "e", "g">>

\* files a user may have in, or put into, the known_faces directory
InitFiles == {FileA, FileUnknown, FileNotes, FileDotted}

\* what the known_faces directory holds when the program starts
InitDirs == { {}, {FileNotes}, {FileA}, {FileUnknown}, {FileA, FileNotes},
             {FileUnknown, FileDotted} }

\* arguments of add_new_face
ImagePaths == { <<"i", "/", "p", ".", "j", "p", "g">>, <<"p", ".", "J", "P", "G">>,
                <<"p", ".", "g", "i", "f">>, <<"p">> }
PersonNames == { <<"b", "o", "b">>, Unknown, <<"a", ".", "b">> }

\* distances DeepFace.find reports, in thousandths
Distances == {0, 875}

\* what cv2.waitKey(1) returns: no key (-1), 'q', 's', and 'q' with a modifier bit
RawKeys == {-1, 113, 115, 369}

FrameIds == 1..NumFrames

----------------------------------------------------------------------------
(* Pure parts of the methods *)

\* os.listdir: the files of the directory in any order
Listings(d) ==
    { l \in [1..Cardinality(d) -> d] : \A i, j \in 1..Cardinality(d) : l[i] = l[j] => i = j }

\* lines 16-20: the list comprehension of refresh_known_faces over a listing
RefreshedNames(listing) ==
    LET images == SelectSeq(listing, IsImageName)
    IN [i \in 1..Len(images) |-> SplitextRoot(images[i])]

\* lines 24-25: dest_path of add_new_face
DestPath(image_path, nm) == Join(KnownFacesDir, nm \o SplitextExt(image_path))

\* line 37: what DeepFace.find can do with the temp image and the directory:
\* raise, return an empty list, return an empty first table, or return a first
\* table whose first row names a reference image and a distance. A row can only
\* come from an image that was written.
MatcherOutcomes(temp, d) ==
    { [kind |-> k, identity |-> NoName, distance |-> 0, img |-> temp] :
          k \in {"raise", "empty_list", "empty_table"} }
    \cup (IF temp = NoFile THEN {}
          ELSE { [kind |-> "match", identity |-> Join(KnownFacesDir, f),
                  distance |-> dist, img |-> temp] :
                     f \in {g \in d : IsImageName(g)}, dist \in Distances })

\* line 38: len(result) > 0 and len(result[0]) > 0 (no exception raised)
HasBestMatch(o) == o.kind = "match"

\* BestName with a failure named apart from "no match"
BestNameErr(o) ==
    IF HasBestMatch(o) THEN SplitextRoot(Basename(o.identity))
    ELSE IF o.kind = "raise" THEN <<"E", "r", "r", "o", "r">>
    ELSE Unknown

\* lines 41, 44, 47: name
BestName(o) ==
    IF HasBestMatch(o) THEN SplitextRoot(Basename(o.identity)) ELSE Unknown

\* lines 42, 45, 48: confidence, in thousandths
BestConfidence(o) ==
    IF HasBestMatch(o) THEN 1000 - o.distance ELSE 0

\* format spec :.2f, thousandths to hundredths, ties to even
Format2(m) ==
    LET q == m \div 10
        r == m % 10
    IN IF r < 5 THEN q
       ELSE IF r > 5 THEN q + 1
       ELSE IF q % 2 = 0 THEN q ELSE q + 1

\* line 51: the line printed
DetectedLine(nm, conf) == [kind |-> "Detected", name |-> nm, conf |-> Format2(conf)]

\* lines 54-55: the label drawn and its colour
Label(nm, conf) ==
    IF nm # Unknown
    THEN [text |-> nm, hasConf |-> TRUE, conf |-> Format2(conf), color |-> "green"]
    ELSE [text |-> Unknown, hasConf |-> FALSE, conf |-> 0, color |-> "red"]

\* NoKnownFaces with the comparison mistyped
NoKnownFacesLess == Len(known_face_names) < 0

\* line 106: len(face_system.known_face_names) == 0
NoKnownFaces == Len(known_face_names) = 0

\* TimeIsUp measured from the current reading, not from the loop's start
TimeIsUpFromNow == now - now > TimeLimit

\* line 95: time.time() - start_time > 10
TimeIsUp == now - start_time > TimeLimit

\* any other line printed
Line(k) == [kind |-> k, name |-> NoName, conf |-> 0]

\* line 85: cv2.waitKey(1) & 0xFF
MaskKey(raw) == raw % ByteMask

\* IsQuitKey that also quits on 's'
IsQuitKeyOrSave(k) == k = OrdQ \/ k = OrdS

\* line 86: key == ord('q')
IsQuitKey(k) == k = OrdQ

\* IsSaveKey as a plain else branch: every key but 'q' saves
IsSaveKeyElse(k) == k # OrdQ

\* line 88: key == ord('s')
IsSaveKey(k) == k = OrdS

\* RemoveTemp that removes nothing
RemoveTempSkipped(temp) == temp

\* lines 57-58: the temp file after the cleanup
RemoveTemp(temp) == NoFile

\* line 34: the temp file after cv2.imwrite(temp_img, frame), which returns
\* False and writes nothing when it fails
WrittenTemp(temp, f, ok) == IF ok THEN f.id ELSE temp

----------------------------------------------------------------------------
(* The state before main runs *)

LoopPcs == {"read", "imwrite", "find", "print", "putText", "cleanup", "imshow",
            "waitKey", "timer", "release"}

Init ==
    /\ pc = "main"
    /\ dirExists \in BOOLEAN
    /\ dir \in {d \in InitDirs : ~dirExists => d = {}}
    /\ known_face_names = <<>>
    /\ call = [op |-> "none", image_path |-> NoName, name |-> NoName, ret |-> "none"]
    /\ now = 0
    /\ start_time = 0
    /\ isOpened = FALSE
    /\ cameraHeld = FALSE
    /\ windowOpen = FALSE
    /\ shown = NoFrame
    /\ ret = FALSE
    /\ frame = NoFrame
    /\ frameNo = NumFrames
    /\ tempFile = NoFile
    /\ result = NoResult
    /\ name = NoName
    /\ confidence = 0
    /\ printed = Line("nothing")
    /\ last_result = NoFrame
    /\ key = 0
    /\ saved = NoFrame
    /\ steps = <<>>
    /\ retval = NoFrame
    /\ used = [makedirs |-> FALSE, camera |-> FALSE, temp |-> FALSE, matcher |-> FALSE,
               starts |-> 0]

----------------------------------------------------------------------------
(* FaceRecognitionSystem: __init__, refresh_known_faces, add_new_face *)

\* lines 9-13, called at line 105
Construct ==
    /\ pc = "main"
    /\ dirExists' = TRUE
    /\ \E listing \in Listings(dir) : known_face_names' = RefreshedNames(listing)
    /\ call' = [op |-> "__init__", image_path |-> NoName, name |-> NoName, ret |-> "None"]
    /\ used' = [used EXCEPT !.makedirs = ~dirExists]
    /\ pc' = "constructed"
    /\ UNCHANGED <<dir, now, printed, start_time, isOpened, cameraHeld, windowOpen, shown,
                   ret, frame, frameNo, tempFile, result, name, confidence, last_result,
                   key, saved, steps, retval>>

\* lines 15-20
RefreshKnownFaces ==
    /\ pc = "constructed"
    /\ \E listing \in Listings(dir) : known_face_names' = RefreshedNames(listing)
    /\ call' = [op |-> "refresh_known_faces", image_path |-> NoName, name |-> NoName,
                ret |-> "None"]
    /\ UNCHANGED <<pc, dirExists, dir, now, printed>>
    /\ UNCHANGED loopVars

\* lines 22-29, the source image exists and is copied
AddNewFace ==
    /\ pc = "constructed"
    /\ \E image_path \in ImagePaths, nm \in PersonNames :
         LET dest_path == DestPath(image_path, nm)
         IN /\ Cardinality(dir \cup {Basename(dest_path)}) <= MaxFiles
            /\ dir' = dir \cup {Basename(dest_path)}
            /\ call' = [op |-> "add_new_face", image_path |-> image_path, name |-> nm,
                        ret |-> "True"]
            /\ printed' = [kind |-> "Added", name |-> nm, conf |-> 0]
    /\ \E listing \in Listings(dir') : known_face_names' = RefreshedNames(listing)
    /\ UNCHANGED <<pc, dirExists, now>>
    /\ UNCHANGED loopVars

\* lines 22-26, shutil.copy raises (no such source image): nothing is copied,
\* nothing is refreshed, and the exception goes to the caller
AddNewFaceRaises ==
    /\ pc = "constructed"
    /\ \E image_path \in ImagePaths, nm \in PersonNames :
         call' = [op |-> "add_new_face", image_path |-> image_path, name |-> nm,
                  ret |-> "raised"]
    /\ UNCHANGED <<pc, dirExists, dir, known_face_names, now, printed>>
    /\ UNCHANGED loopVars

\* a file is put into the directory from outside the program (lines 108-109
\* ask the user to do so)
UserPutsFile ==
    /\ pc = "constructed"
    /\ \E f \in InitFiles :
         /\ f \notin dir
         /\ Cardinality(dir) < MaxFiles
         /\ dir' = dir \cup {f}
    /\ call' = [op |-> "none", image_path |-> NoName, name |-> NoName, ret |-> "none"]
    /\ UNCHANGED <<pc, dirExists, known_face_names, now, printed>>
    /\ UNCHANGED loopVars

----------------------------------------------------------------------------
(* main *)

\* lines 106-110
MainNoFaces ==
    /\ pc = "constructed"
    /\ NoKnownFaces
    /\ printed' = Line("NoKnownFaces")
    /\ pc' = "exit"
    /\ UNCHANGED <<now>>
    /\ UNCHANGED faceVars
    /\ UNCHANGED loopVars

\* lines 112-116
MainStart ==
    /\ pc = "constructed"
    /\ ~NoKnownFaces
    /\ printed' = Line("Loaded")
    /\ used' = [used EXCEPT !.starts = @ + 1]
    /\ pc' = "open"
    /\ UNCHANGED <<now, start_time, isOpened, cameraHeld, windowOpen, shown, ret, frame,
                   frameNo, tempFile, result, name, confidence, last_result, key, saved,
                   steps, retval>>
    /\ UNCHANGED faceVars

----------------------------------------------------------------------------
(* start_realtime_recognition *)

\* lines 62-71: cv2.VideoCapture(0) and the isOpened check
OpenCamera ==
    /\ pc = "open"
    /\ used' = [used EXCEPT !.camera = TRUE]
    /\ \E ok \in BOOLEAN :
         IF ok
         THEN /\ isOpened' = TRUE
              /\ cameraHeld' = TRUE
              /\ start_time' = now
              /\ last_result' = NoFrame
              /\ printed' = Line("PressQ")
              /\ pc' = "read"
              /\ UNCHANGED retval
         ELSE /\ isOpened' = FALSE
              /\ printed' = Line("ErrorOpen")
              /\ retval' = NoFrame
              /\ pc' = "returned"
              /\ UNCHANGED <<cameraHeld, start_time, last_result>>
    /\ UNCHANGED <<now, windowOpen, shown, ret, frame, frameNo, tempFile, result, name,
                   confidence, key, saved, steps>>
    /\ UNCHANGED faceVars

\* ReadFrame of a loop that reuses the last result, when there is one, and
\* goes straight to the display
ReadFrameCached ==
    /\ pc = "read"
    /\ \E ok \in BOOLEAN :
         IF ok
         THEN /\ ret' = TRUE
              /\ frameNo' = (frameNo % NumFrames) + 1
              /\ frame' = [id |-> frameNo', label |-> last_result.label]
              /\ steps' = <<"capture">>
              /\ pc' = IF last_result = NoFrame THEN "imwrite" ELSE "imshow"
              /\ UNCHANGED printed
         ELSE /\ ret' = FALSE
              /\ frame' = NoFrame
              /\ steps' = <<"read_failed">>
              /\ printed' = Line("ErrorRead")
              /\ pc' = "release"
              /\ UNCHANGED frameNo
    /\ saved' = NoFrame
    /\ UNCHANGED <<now, start_time, isOpened, cameraHeld, windowOpen, shown, tempFile,
                   result, name, confidence, last_result, key, saved, retval, used>>
    /\ UNCHANGED faceVars

\* lines 74-77: video_capture.read()
ReadFrame ==
    /\ pc = "read"
    /\ \E ok \in BOOLEAN :
         IF ok
         THEN /\ ret' = TRUE
              /\ frameNo' = (frameNo % NumFrames) + 1
              /\ frame' = [id |-> frameNo', label |-> NoLabel]
              /\ steps' = <<"capture">>
              /\ pc' = "imwrite"
              /\ UNCHANGED printed
         ELSE /\ ret' = FALSE
              /\ frame' = NoFrame
              /\ steps' = <<"read_failed">>
              /\ printed' = Line("ErrorRead")
              /\ pc' = "release"
              /\ UNCHANGED frameNo
    /\ saved' = NoFrame
    /\ UNCHANGED <<now, start_time, isOpened, cameraHeld, windowOpen, shown, tempFile,
                   result, name, confidence, last_result, key, retval, used>>
    /\ UNCHANGED faceVars

\* line 95-97: the timer check
TimerCheck ==
    /\ pc = "timer"
    /\ IF TimeIsUp
       THEN /\ printed' = Line("TimeLimit")
            /\ pc' = "release"
       ELSE /\ pc' = "read"
            /\ UNCHANGED printed
    /\ steps' = Append(steps, "timer")
    /\ UNCHANGED <<now, start_time, isOpened, cameraHeld, windowOpen, shown, ret, frame,
                   frameNo, tempFile, result, name, confidence, last_result, key, saved,
                   retval, used>>
    /\ UNCHANGED faceVars

\* lines 85-92: the key poll, the quit and the snapshot
WaitKey ==
    /\ pc = "waitKey"
    /\ \E raw \in RawKeys :
         /\ key' = MaskKey(raw)
         /\ IF IsQuitKey(key')
            THEN /\ pc' = "release"
                 /\ UNCHANGED <<saved, printed>>
            ELSE IF IsSaveKey(key')
            THEN /\ saved' = frame
                 /\ printed' = Line("Saved")
                 /\ pc' = "timer"
            ELSE /\ pc' = "timer"
                 /\ UNCHANGED <<saved, printed>>
    /\ steps' = Append(steps, "poll")
    /\ UNCHANGED <<now, start_time, isOpened, cameraHeld, windowOpen, shown, ret, frame,
                   frameNo, tempFile, result, name, confidence, last_result, retval,
                   used>>
    /\ UNCHANGED faceVars

\* lines 80-83: cv2.imshow, which raises cv2.error when no window can be made
\* (the exception leaves start_realtime_recognition: nothing catches it), and
\* last_result = frame
Imshow ==
    /\ pc = "imshow"
    /\ \E ok \in BOOLEAN :
         IF ok
         THEN /\ windowOpen' = TRUE
              /\ shown' = frame
              /\ last_result' = frame
              /\ steps' = Append(steps, "display")
              /\ pc' = "waitKey"
         ELSE /\ steps' = Append(steps, "display_raised")
              /\ pc' = "raised"
              /\ UNCHANGED <<windowOpen, shown, last_result>>
    /\ UNCHANGED <<now, start_time, isOpened, cameraHeld, ret, frame, frameNo, tempFile,
                   result, name, confidence, printed, key, saved, retval, used>>
    /\ UNCHANGED faceVars

\* lines 99-102
Release ==
    /\ pc = "release"
    /\ cameraHeld' = FALSE
    /\ windowOpen' = FALSE
    /\ shown' = NoFrame
    /\ printed' = Line("Stopped")
    /\ retval' = last_result
    /\ pc' = "returned"
    /\ UNCHANGED <<now, start_time, isOpened, ret, frame, frameNo, tempFile, result,
                   name, confidence, last_result, key, saved, steps, used>>
    /\ UNCHANGED faceVars

----------------------------------------------------------------------------
(* recognize_faces_in_frame, called at line 79 *)

\* lines 33-34
WriteTemp ==
    /\ pc = "imwrite"
    /\ \E ok \in BOOLEAN : tempFile' = WrittenTemp(tempFile, frame, ok)
    /\ used' = [used EXCEPT !.temp = TRUE]
    /\ steps' = Append(steps, "write")
    /\ pc' = "find"
    /\ UNCHANGED <<now, start_time, isOpened, cameraHeld, windowOpen, shown, ret, frame,
                   frameNo, result, name, confidence, printed, last_result, key, saved,
                   retval>>
    /\ UNCHANGED faceVars

\* lines 35-48
Find ==
    /\ pc = "find"
    /\ \E o \in MatcherOutcomes(tempFile, dir) :
         /\ result' = o
         /\ name' = BestName(o)
         /\ confidence' = BestConfidence(o)
    /\ used' = [used EXCEPT !.matcher = TRUE]
    /\ steps' = Append(steps, "match")
    /\ pc' = "print"
    /\ UNCHANGED <<now, start_time, isOpened, cameraHeld, windowOpen, shown, ret, frame,
                   frameNo, tempFile, printed, last_result, key, saved, retval>>
    /\ UNCHANGED faceVars

\* line 51
PrintDetected ==
    /\ pc = "print"
    /\ printed' = DetectedLine(name, confidence)
    /\ steps' = Append(steps, "print")
    /\ pc' = "putText"
    /\ UNCHANGED <<now, start_time, isOpened, cameraHeld, windowOpen, shown, ret, frame,
                   frameNo, tempFile, result, name, confidence, last_result, key, saved,
                   retval, used>>
    /\ UNCHANGED faceVars

\* lines 54-55
PutText ==
    /\ pc = "putText"
    /\ frame' = [frame EXCEPT !.label = Label(name, confidence)]
    /\ steps' = Append(steps, "annotate")
    /\ pc' = "cleanup"
    /\ UNCHANGED <<now, start_time, isOpened, cameraHeld, windowOpen, shown, ret,
                   frameNo, tempFile, result, name, confidence, printed, last_result,
                   key, saved, retval, used>>
    /\ UNCHANGED faceVars

\* lines 57-59: the cleanup and the return; the locals end with the call
Cleanup ==
    /\ pc = "cleanup"
    /\ tempFile' = RemoveTemp(tempFile)
    /\ result' = NoResult
    /\ name' = NoName
    /\ confidence' = 0
    /\ steps' = Append(steps, "cleanup")
    /\ pc' = "imshow"
    /\ UNCHANGED <<now, start_time, isOpened, cameraHeld, windowOpen, shown, ret, frame,
                   frameNo, printed, last_result, key, saved, retval, used>>
    /\ UNCHANGED faceVars

----------------------------------------------------------------------------
(* The wall clock. Readings are capped: the program's start is read at most at
   MaxStart, and once the time limit has passed no later reading differs. *)

Tick ==
    /\ \/ pc \in {"main", "constructed", "open"} /\ now < MaxStart
       \/ pc \in LoopPcs /\ now - start_time <= TimeLimit
    /\ now' = now + 1
    /\ UNCHANGED <<pc, printed>>
    /\ UNCHANGED faceVars
    /\ UNCHANGED loopVars

----------------------------------------------------------------------------
(* Specifications *)

\* one step of the program
Step ==
    \/ Construct
    \/ MainNoFaces
    \/ MainStart
    \/ OpenCamera
    \/ ReadFrame
    \/ WriteTemp
    \/ Find
    \/ PrintDetected
    \/ PutText
    \/ Cleanup
    \/ Imshow
    \/ WaitKey
    \/ TimerCheck
    \/ Release

Next == Step \/ Tick

\* main, as run by line 119
Spec == Init /\ [][Next]_vars

\* main with a clock that advances and a program that keeps running
FairSpec == Init /\ [][Next]_vars /\ WF_vars(Step) /\ WF_vars(Tick)

NextFaces ==
    \/ Construct
    \/ RefreshKnownFaces
    \/ AddNewFace
    \/ AddNewFaceRaises
    \/ UserPutsFile

\* a client of the FaceRecognitionSystem object calling its methods
SpecFaces == Init /\ [][NextFaces]_vars

----------------------------------------------------------------------------
(* Claims *)

\* the matcher found no best match: it raised, returned an empty list or an
\* empty first table
MatcherFailed == result.kind \in {"raise", "empty_list", "empty_table"}

\* recognize_faces_in_frame has printed its line and not yet returned
AfterPrint == pc \in {"putText", "cleanup"}

UnknownLine == [kind |-> "Detected", name |-> Unknown, conf |-> 0]
BareUnknown == [text |-> Unknown, hasConf |-> FALSE, conf |-> 0, color |-> "red"]

\* C1 as stated: every failure (of the matcher, of the temp write, of the
\* camera open, of the frame read) ends with the line "Detected: Unknown
\* (Confidence: 0.00)" printed, and no error leaves the two methods.
C1AllUnknown ==
    /\ AfterPrint /\ (MatcherFailed \/ result.img = NoFile) => printed = UnknownLine
    /\ pc = "returned" /\ ~isOpened => printed = UnknownLine
    /\ pc = "release" /\ ~ret => printed = UnknownLine
    /\ pc = "raised" => steps[Len(steps)] = "display_raised"

\* C1 amended: every failure of the matcher, and every temp file that was not
\* written, ends with "Detected: Unknown (Confidence: 0.00)" printed and the bare
\* label Unknown drawn; a camera that does not open prints its own error line and
\* returns None before any frame is read; a frame that cannot be read prints its
\* own error line and ends the loop; none of these raises out of the two methods
\* (only the display step does).
C1Collapse ==
    /\ AfterPrint /\ (MatcherFailed \/ result.img = NoFile) => printed = UnknownLine
    /\ pc = "cleanup" /\ (MatcherFailed \/ result.img = NoFile) => frame.label = BareUnknown
    /\ pc = "returned" /\ ~isOpened =>
           printed = Line("ErrorOpen") /\ retval = NoFrame /\ steps = <<>>
    /\ pc = "release" /\ ~ret => printed = Line("ErrorRead")
    /\ pc = "raised" => steps[Len(steps)] = "display_raised"

C1Witness ==
    /\ pc = "cleanup"
    /\ result.kind = "raise"
    /\ result.img = NoFile
    /\ printed = UnknownLine

\* the six steps of an iteration, in the order the loop is said to take them
SixSteps == <<"capture", "write", "match", "annotate", "display", "poll">>

IsSixStep(x) == \E i \in 1..Len(SixSteps) : SixSteps[i] = x

\* the steps of the current iteration that are among the six
Taken == SelectSeq(steps, IsSixStep)

InLoop(p) == p \in LoopPcs \ {"release"}

\* C4 as stated: the loop is left only from a poll of 'q' or from a timer
\* check that found more than 10 seconds.
C4OnlyKeyOrTimer ==
    [][InLoop(pc) /\ ~InLoop(pc') =>
          \/ pc = "waitKey" /\ key' = OrdQ
          \/ pc = "timer" /\ now - start_time > TimeLimit]_vars

\* C4 amended: the loop is left only from a poll of 'q', from a timer check
\* that found more than 10 seconds, from a frame read that failed, or by the
\* display step raising.
C4Exits ==
    [][InLoop(pc) /\ ~InLoop(pc') =>
          \/ pc = "waitKey" /\ key' = OrdQ /\ pc' = "release"
          \/ pc = "timer" /\ now - start_time > TimeLimit /\ pc' = "release"
          \/ pc = "read" /\ ~ret' /\ pc' = "release"
          \/ pc = "imshow" /\ pc' = "raised"]_vars

C4Witness ==
    /\ pc = "release"
    /\ ret
    /\ key = OrdQ
    /\ now - start_time <= TimeLimit

\* C5: when the matcher returned a best match, the frame returned carries the
\* label "<stem of the identity> (<1 - distance>)", whatever the reference
\* file is called, and the bare label Unknown is drawn only when there was no
\* best match.
C5Label ==
    pc = "cleanup" =>
        /\ result.kind = "match" =>
               frame.label = [text |-> SplitextRoot(Basename(result.identity)),
                              hasConf |-> TRUE,
                              conf |-> Format2(1000 - result.distance),
                              color |-> "green"]
        /\ frame.label = BareUnknown => result.kind # "match"

\* C8: temp_frame.jpg exists only between the temp write and the cleanup of
\* the same call of recognize_faces_in_frame, and then holds that call's frame.
C8TempTransient ==
    /\ pc \notin {"find", "print", "putText", "cleanup"} => tempFile = NoFile
    /\ pc \in {"find", "print", "putText", "cleanup"} => tempFile \in {NoFile, frame.id}

C8Witness ==
    /\ pc = "imshow"
    /\ tempFile = NoFile
    /\ frame.label.hasConf
    /\ frameNo = NumFrames

\* C9: when the operation has ended, in whatever way, the camera is released
\* and no window is left; and when the camera could not be opened no frame was
\* read or displayed and None is returned.
C9Released ==
    /\ pc \in {"returned", "raised", "exit"} => ~cameraHeld /\ ~windowOpen
    /\ pc = "returned" /\ ~isOpened => steps = <<>> /\ shown = NoFrame /\ retval = NoFrame

\* C10: main returns without opening the camera, writing a temp file or
\* calling the matcher when no known face was loaded (also when the directory
\* had to be created), and otherwise calls start_realtime_recognition once.
C10MainGuard ==
    /\ pc = "exit" => Len(known_face_names) = 0
    /\ used.makedirs => Len(known_face_names) = 0
    /\ pc # "main" /\ Len(known_face_names) = 0 =>
           /\ pc \in {"constructed", "exit"}
           /\ ~used.camera /\ ~used.temp /\ ~used.matcher /\ used.starts = 0
    /\ pc \notin {"main", "constructed"} /\ Len(known_face_names) > 0 => used.starts = 1
    /\ pc \in {"main", "constructed"} => used.starts = 0

C10Witness ==
    /\ pc = "exit"
    /\ used.makedirs
    /\ ~used.camera

\* how many times the keys were polled in the current iteration
Polls == Len(SelectSeq(steps, LAMBDA x : x = "poll"))

\* the loop is in an iteration that read a frame
InIteration == ret /\ pc \in LoopPcs \ {"read"}

\* the keys of the current iteration have been polled
Polled == ret /\ pc \in {"timer", "release"}

ImageStems(d) ==
    { SplitextRoot(f) : f \in {g \in d : Lower(SplitextExt(g)) \in ImageExts} }

\* C6: after __init__, refresh_known_faces or add_new_face has returned,
\* known_face_names lists the stems of the files of the directory with
\* extension .png, .jpg or .jpeg in any letter case; and after
\* add_new_face(image_path, name) has returned True the directory holds
\* "<name><extension of image_path>" and name is one of known_face_names.
C6NamesFollowFiles ==
    /\ call.op \in {"__init__", "refresh_known_faces", "add_new_face"} /\ call.ret # "raised" =>
           /\ {known_face_names[i] : i \in 1..Len(known_face_names)} = ImageStems(dir)
           /\ Len(known_face_names) =
                  Cardinality({g \in dir : Lower(SplitextExt(g)) \in ImageExts})
    /\ call.op = "add_new_face" /\ call.ret = "True" =>
           /\ (call.name \o SplitextExt(call.image_path)) \in dir
           /\ \E i \in 1..Len(known_face_names) : known_face_names[i] = call.name

\* the operation returned or an exception left it
Ended == pc \in {"exit", "returned", "raised"}

\* C3: with a clock that advances and steps that return, the operation ends;
\* a timer check that finds more than 10 seconds since the loop started goes
\* to the release, and no frame is read from there on.
C3Timeout ==
    /\ <>Ended
    /\ [][/\ pc = "timer" /\ now - start_time > TimeLimit /\ pc' # pc => pc' = "release"
          /\ pc \in {"release", "returned"} =>
                 /\ pc' \in {"release", "returned"}
                 /\ frame' = frame
                 /\ frameNo' = frameNo]_vars

C3Witness ==
    /\ pc = "returned"
    /\ ret
    /\ key # OrdQ
    /\ now - start_time > TimeLimit
    /\ retval # NoFrame

====
